---- MODULE Spec2Model ----
(***************************************************************************)
(* Model of the scrape-and-persist pipeline of fetch_company_data.py:      *)
(* scrape_all_async (scheduler), scrape_url_async (company task),          *)
(* collect_tab_html_async (tab navigator), process_company_data            *)
(* (extraction + four upserts), update_sqlite (replace-by-key upsert) and  *)
(* load_scrape_log / save_scrape_log (staleness log).                      *)
(*                                                                         *)
(* Time is counted in units of half a day.  A page snapshot is abstracted  *)
(* to whether the content region of the tab it was taken for is present    *)
(* ("full") or not ("partial"); the extractors select rows from that       *)
(* region only.                                                            *)
(*                                                                         *)
(* Spec is one batch; FairSpec adds the fairness of the event loop;        *)
(* SpecRerun runs the program again after a batch ended; SpecUpsert calls  *)
(* update_sqlite on its own.                                               *)
(***************************************************************************)
EXTENDS Integers, Sequences, FiniteSets, TLC

\* ------------------------------------------------------------ bounds
NTasks == 2          \* number of lines of the URL file
MaxK == 2            \* largest concurrency limit tried
MaxRows == 2         \* most rows one tab of the remote site shows
MaxVer == 1          \* versions of the remote data a scrape may see
MaxFaults == 2       \* most failures (raises, failed tabs, storage faults) in one behaviour
MaxClock == 3        \* the clock stops advancing here
MaxCalls == 2        \* calls of update_sqlite made on its own, one after the other
MaxRuns == 2         \* batches run one after the other

\* ------------------------------------------------------------ constants
\* timedelta(days=1), in units of half a day
FreshnessWindow == 2
\* the clock value at which the batch starts (keeps all timestamps >= 0)
StartClock == 2

Companies == {"A", "B"}
Tasks == 1..NTasks
NoEntry == -1

\* the keys of the TABS dict after 'info', in the order the dict lists them
TabOrder_of_TABS == <<"quotations", "indicators", "reports1", "reports2", "shareholders", "notoria">>

\* TABS keys, in the order collect_tab_html_async visits them after 'info'
TabOrder == <<"indicators", "quotations", "reports1", "reports2", "shareholders", "notoria">>
TabNames == {"info"} \cup {TabOrder[k] : k \in 1..Len(TabOrder)}
TableNames == {"company_company", "company_reports", "company_shareholders", "company_notoria"}
\* the order in which process_company_data upserts the tables
TableOrder == <<"company_company", "company_reports", "company_shareholders", "company_notoria">>

VARIABLES
    urls,         \* the URL file: task number -> company url
    limit,        \* BATCH_SIZE, the concurrency limit K
    sem,          \* value of the asyncio.Semaphore
    now,          \* datetime.now() taken by scrape_all_async at batch start
    clock,        \* the wall clock
    scrape_log,   \* the in-memory dict shared by all tasks: url -> timestamp
    log_file,     \* scrape_log.csv: sequence of rows [url, last_scraped]
    tables,       \* the SQLite tables: name -> sequence of rows (<<>> = no table)
    pc,           \* position of each task
    tabIdx,       \* index into TabOrder of the tab a task attempts next
    page,         \* "none" | "open" | "closed": the task's browser page
    description,  \* the description a task read
    tab_html,     \* the snapshot bundle of each task: tab name -> snapshot
    outcome,      \* how the task ended (or will end once its page is released)
    ret,          \* the boolean returned by scrape_url_async
    raised,       \* the step of the task that raised first, "none" if none
    produced,     \* the rows the task's extraction produced, per table
    batch,        \* "running" | "aborted" | "done"
    faults,       \* failures met so far
    up,           \* the last call of update_sqlite made on its own: its arguments,
                  \* the table before it, and the number of calls so far
    earlier       \* the batches run before this one: for each, the companies
                  \* whose task ended as Failed

vars == <<urls, limit, sem, now, clock, scrape_log, log_file, tables, pc, tabIdx,
          page, description, tab_html, outcome, ret, raised, produced, batch, faults, up,
          earlier>>

\* ------------------------------------------------------------ helpers
Range(s) == {s[k] : k \in 1..Len(s)}

\* the rows of a table (or record list) whose key column holds url
RowsOf(rows, key, url) == SelectSeq(rows, LAMBDA r : r[key] = url)

\* the key column process_company_data passes for each table
UrlKeyOf(table) == IF table = "company_company" THEN "url" ELSE "company_url"

\* columns whose name contains 'url'
UrlColumns == {"url", "company_url", "report_url"}

\* ------------------------------------------------------------ staleness log
\* dict.get(url): the timestamp stored for url, NoEntry (None) without one
DictGet(d, url) ==
    IF \E k \in 1..Len(d) : d[k].url = url
    THEN d[CHOOSE k \in 1..Len(d) : d[k].url = url].last_scraped
    ELSE NoEntry

\* d[url] = at: replaces the value in place, or appends a new key
DictSet(d, url, at) ==
    IF \E k \in 1..Len(d) : d[k].url = url
    THEN [k \in 1..Len(d) |-> IF d[k].url = url THEN [url |-> url, last_scraped |-> at] ELSE d[k]]
    ELSE Append(d, [url |-> url, last_scraped |-> at])

RECURSIVE load_rows(_, _)
load_rows(rows, d) ==
    IF rows = <<>> THEN d
    ELSE load_rows(Tail(rows), DictSet(d, Head(rows).url, Head(rows).last_scraped))

\* load_scrape_log: {row["url"]: row["last_scraped"] for each row of the file}
load_scrape_log(file) == load_rows(file, <<>>)

\* save_scrape_log without the isin filter: the entries are appended to the file
save_scrape_log_append(file, log) == file \o log

\* save_scrape_log: the file's rows for urls not in log, then every entry of log
save_scrape_log(file, log) ==
    LET urls_to_update == {log[k].url : k \in 1..Len(log)}
        df_existing == SelectSeq(file, LAMBDA r : r.url \notin urls_to_update)
    IN  df_existing \o log

\* ------------------------------------------------------------ persistence
\* the column update_sqlite keys on: url_key, or a column with 'url' in its name
ResolveKey(rows, url_key) ==
    IF url_key \in DOMAIN rows[1] THEN url_key
    ELSE LET possible_url_cols == DOMAIN rows[1] \cap UrlColumns
         IN  IF possible_url_cols # {} THEN CHOOSE c \in possible_url_cols : TRUE
             ELSE url_key

\* update_sqlite written without the filter: the new rows replace the table
update_sqlite_overwrite(existing, rows, url_key, readFails) ==
    IF rows = <<>> THEN existing ELSE rows

\* update_sqlite written without the filter: the new rows are appended
update_sqlite_append(existing, rows, url_key, readFails) ==
    IF readFails THEN rows ELSE existing \o rows

\* update_sqlite with the filter inverted: the rows of the other keys are dropped
update_sqlite_inverted(existing, rows, url_key, readFails) ==
    IF rows = <<>> THEN existing
    ELSE IF readFails \/ existing = <<>> THEN rows
         ELSE SelectSeq(existing, LAMBDA r : r[url_key] = rows[1][url_key]) \o rows

\* update_sqlite: the table's content after the call.  existing = <<>> is a
\* table that does not exist; readFails is pd.read_sql raising for another
\* reason.  Both end in the except branch.
update_sqlite(existing, rows, url_key, readFails) ==
    IF rows = <<>> THEN existing
    ELSE LET key == ResolveKey(rows, url_key)
         IN  IF readFails \/ existing = <<>> THEN rows
             ELSE IF key \in DOMAIN existing[1]
                  THEN SelectSeq(existing, LAMBDA r : r[key] # rows[1][key]) \o rows
                  ELSE rows

\* ------------------------------------------------------------ extraction
\* what the remote site shows during one scrape: a data version and the number
\* of rows in each of its row-bearing tabs
Remotes == [ver : 1..MaxVer, n : 0..MaxRows]

CoreTabs == {"info", "indicators", "quotations"}

\* parse_core on the merged info + indicators + quotations snapshots, then
\* cd.description = description
parse_core(bundle, url, desc, remote) ==
    [url |-> url, ver |-> remote.ver, description |-> desc,
     core |-> {t \in CoreTabs : bundle[t] = "full"}]

\* the rows one row-bearing tab yields: none when its region is not in the snapshot
TabRows(snapshot, tab_key, url, remote) ==
    IF snapshot = "full"
    THEN [j \in 1..remote.n |-> [company_url |-> url, tab |-> tab_key, ver |-> remote.ver, idx |-> j]]
    ELSE <<>>

extract_reports(bundle, tab_key, url, remote) == TabRows(bundle[tab_key], tab_key, url, remote)

extract_shareholders(bundle, url, remote) == TabRows(bundle["shareholders"], "shareholders", url, remote)

extract_notoria(bundle, url, remote) == TabRows(bundle["notoria"], "notoria", url, remote)

\* company_data, reports_data, shareholders_data, notoria_data of process_company_data
Extracted(bundle, url, desc, remote) ==
    [t \in TableNames |->
        CASE t = "company_company" -> <<parse_core(bundle, url, desc, remote)>>
          [] t = "company_reports" -> extract_reports(bundle, "reports1", url, remote)
                                      \o extract_reports(bundle, "reports2", url, remote)
          [] t = "company_shareholders" -> extract_shareholders(bundle, url, remote)
          [] t = "company_notoria" -> extract_notoria(bundle, url, remote)]

NoRows == [t \in TableNames |-> <<>>]

\* the faults one run of process_company_data + save_scrape_log may meet
Faults ==
    {[kind |-> "none", table |-> "none"], [kind |-> "extract", table |-> "none"],
     [kind |-> "log", table |-> "none"]}
    \cup [kind : {"read", "write", "write_dropped"}, table : TableNames]

RECURSIVE Persist(_, _, _, _)
\* the four update_sqlite calls, in order, from the k-th on.  A write fault
\* (to_sql raising) ends the run: before the table was dropped ("write") or
\* after ("write_dropped").  A fault on a table whose record list is empty
\* never happens, because update_sqlite returns before touching the storage.
Persist(tbls, rowsByTable, fault, k) ==
    IF k > Len(TableOrder) THEN [tables |-> tbls, ok |-> TRUE]
    ELSE LET t == TableOrder[k]
             rows == rowsByTable[t]
             hit == fault.table = t /\ rows # <<>>
         IN  IF hit /\ fault.kind = "write" THEN [tables |-> tbls, ok |-> FALSE]
             ELSE IF hit /\ fault.kind = "write_dropped"
                  THEN [tables |-> [tbls EXCEPT ![t] = <<>>], ok |-> FALSE]
                  ELSE Persist([tbls EXCEPT ![t] = update_sqlite(tbls[t], rows, UrlKeyOf(t),
                                                                 hit /\ fault.kind = "read")],
                               rowsByTable, fault, k + 1)

\* process_company_data: the tables after the call and whether it returned
process_company_data(tbls, url, bundle, desc, remote, fault) ==
    IF fault.kind = "extract" \/ desc = "None"
    THEN [tables |-> tbls, ok |-> FALSE, step |-> "extract"]
    ELSE LET r == Persist(tbls, Extracted(bundle, url, desc, remote), fault, 1)
         IN  [tables |-> r.tables, ok |-> r.ok, step |-> "persist"]

\* ------------------------------------------------------------ initial state
NoFault == [kind |-> "none", table |-> "none"]

NoBundle == [t \in TabNames |-> "absent"]

FullBundle == [t \in TabNames |-> "full"]

\* the tables an earlier batch left: a complete scrape of url, of data version 0
PriorScrape(tbls, url) ==
    process_company_data(tbls, url, FullBundle, "text", [ver |-> 0, n |-> MaxRows], NoFault).tables

\* no call of update_sqlite on its own was made
NoUpsert == [table |-> "none", rows |-> <<>>, before |-> <<>>, readFails |-> FALSE, calls |-> 0]

\* no database yet, or one holding an earlier scrape of A and then of B
PriorTables == {NoRows, PriorScrape(PriorScrape(NoRows, "A"), "B")}

\* scrape_log.csv as earlier batches left it: at most one row per company,
\* scraped a full window before the batch starts (0) or later than that (1)
PriorStamps == {StartClock - FreshnessWindow, StartClock - FreshnessWindow + 1}

PriorLogs ==
    {<<>>}
    \cup {<<[url |-> "A", last_scraped |-> a], [url |-> "B", last_scraped |-> b]>> :
            <<a, b>> \in {st \in PriorStamps \X PriorStamps : st[1] # st[2]}}

\* the URL files tried: every list of NTasks urls whose first is A
UrlFiles == {f \in [Tasks -> Companies] : f[1] = "A"}

\* a step that met n failures: the batch's budget of failures covers them
Charge(n) == faults + n <= MaxFaults /\ faults' = faults + n

\* scrape_all_async up to asyncio.gather: the URL file and the log are read,
\* now and the semaphore are set, every task is created and none has run
Init ==
    /\ urls \in UrlFiles
    /\ limit \in 1..MaxK
    /\ sem = limit
    /\ now = StartClock
    /\ clock = StartClock
    /\ log_file \in PriorLogs
    /\ scrape_log = load_scrape_log(log_file)
    /\ tables \in PriorTables
    /\ log_file # <<>> => tables # NoRows    \* a logged company was persisted before
    /\ pc = [i \in Tasks |-> "start"]
    /\ tabIdx = [i \in Tasks |-> 1]
    /\ page = [i \in Tasks |-> "none"]
    /\ description = [i \in Tasks |-> "None"]
    /\ tab_html = [i \in Tasks |-> NoBundle]
    /\ outcome = [i \in Tasks |-> "none"]
    /\ ret = [i \in Tasks |-> "none"]
    /\ raised = [i \in Tasks |-> "none"]
    /\ produced = [i \in Tasks |-> NoRows]
    /\ batch = "running"
    /\ faults = 0
    /\ up = NoUpsert
    /\ earlier = <<>>

\* ------------------------------------------------------------ company task
\* skip_threshold = now - timedelta(days=1)
skip_threshold == now - FreshnessWindow

\* the skip check with >= for >
ShouldSkip_inclusive(log, url, threshold) ==
    LET last == DictGet(log, url) IN last # NoEntry /\ last >= threshold

\* last = scrape_log.get(url); if last and last > skip_threshold
ShouldSkip(log, url, threshold) ==
    LET last == DictGet(log, url) IN last # NoEntry /\ last > threshold

\* a gate that admits every task
CanAcquire_always(value) == TRUE

\* the semaphore admits a task while its value is positive
CanAcquire(value) == value > 0

\* the task's share of the state once scrape_url_async has returned or raised:
\* its locals are gone
Ended(i, how, value) ==
    /\ pc' = [pc EXCEPT ![i] = "done"]
    /\ outcome' = [outcome EXCEPT ![i] = how]
    /\ ret' = [ret EXCEPT ![i] = value]
    /\ tabIdx' = [tabIdx EXCEPT ![i] = 1]
    /\ description' = [description EXCEPT ![i] = "None"]
    /\ tab_html' = [tab_html EXCEPT ![i] = NoBundle]
    /\ produced' = [produced EXCEPT ![i] = NoRows]

\* an exception caught by the except clause of scrape_url_async: the task
\* will return (url, False) once the finally clause has released the page
Caught(i, step) ==
    /\ raised' = [raised EXCEPT ![i] = step]
    /\ outcome' = [outcome EXCEPT ![i] = "Failed"]
    /\ pc' = [pc EXCEPT ![i] = "close"]

\* async with semaphore, the skip check, and up to await context.new_page()
Admit(i) ==
    /\ pc[i] = "start"
    /\ CanAcquire(sem)
    /\ IF ShouldSkip(scrape_log, urls[i], skip_threshold)
       THEN /\ Ended(i, "SkippedFresh", "False")
            /\ UNCHANGED sem
       ELSE /\ pc' = [pc EXCEPT ![i] = "new_page"]
            /\ sem' = sem - 1
            /\ UNCHANGED <<outcome, ret, tabIdx, description, tab_html, produced>>
    /\ UNCHANGED <<up, earlier, urls, limit, now, clock, scrape_log, log_file, tables, page, raised, batch,
                   faults>>

\* await context.new_page() resolves; it is outside the try, so an exception
\* leaves the task through async with, which releases the semaphore
NewPage(i) ==
    /\ pc[i] = "new_page"
    /\ \E ok \in BOOLEAN :
         /\ Charge(IF ok THEN 0 ELSE 1)
         /\ IF ok
            THEN /\ page' = [page EXCEPT ![i] = "open"]
                 /\ pc' = [pc EXCEPT ![i] = "goto"]
                 /\ UNCHANGED <<sem, outcome, ret, raised, tabIdx, description, tab_html, produced>>
            ELSE /\ Ended(i, "Raised", "none")
                 /\ raised' = [raised EXCEPT ![i] = "new_page"]
                 /\ sem' = sem + 1
                 /\ UNCHANGED page
    /\ UNCHANGED <<up, earlier, urls, limit, now, clock, scrape_log, log_file, tables, batch>>

\* await page.goto(url, timeout=30000) resolves
Goto(i) ==
    /\ pc[i] = "goto"
    /\ \E ok \in BOOLEAN :
         /\ Charge(IF ok THEN 0 ELSE 1)
         /\ IF ok
            THEN /\ pc' = [pc EXCEPT ![i] = "description"]
                 /\ UNCHANGED <<outcome, raised>>
            ELSE Caught(i, "goto")
    /\ UNCHANGED <<up, earlier, urls, limit, sem, now, clock, scrape_log, log_file, tables, tabIdx, page,
                   description, tab_html, ret, produced, batch>>

\* extract_description_async: inner_text(timeout=3000) returns the text, or
\* raises when the region is absent or the read times out
extract_description_async(found) == IF found THEN "text" ELSE "raise"

\* description = await extract_description_async(page) resolves
Description(i) ==
    /\ pc[i] = "description"
    /\ \E found \in BOOLEAN :
         LET d == extract_description_async(found) IN
         /\ Charge(IF found THEN 0 ELSE 1)
         /\ IF d # "raise"
            THEN /\ description' = [description EXCEPT ![i] = d]
                 /\ pc' = [pc EXCEPT ![i] = "info"]
                 /\ UNCHANGED <<outcome, raised>>
            ELSE /\ Caught(i, "description")
                 /\ UNCHANGED description
    /\ UNCHANGED <<up, earlier, urls, limit, sem, now, clock, scrape_log, log_file, tables, tabIdx, page,
                   tab_html, ret, produced, batch>>

\* tab_html = {'info': await page.content()}
Info(i) ==
    /\ pc[i] = "info"
    /\ \E ok \in BOOLEAN :
         /\ Charge(IF ok THEN 0 ELSE 1)
         /\ IF ok
            THEN /\ tab_html' = [tab_html EXCEPT ![i]["info"] = "full"]
                 /\ pc' = [pc EXCEPT ![i] = "tabs"]
                 /\ tabIdx' = [tabIdx EXCEPT ![i] = 1]
                 /\ UNCHANGED <<outcome, raised>>
            ELSE /\ Caught(i, "content")
                 /\ UNCHANGED <<tab_html, tabIdx>>
    /\ UNCHANGED <<up, earlier, urls, limit, sem, now, clock, scrape_log, log_file, tables, page,
                   description, ret, produced, batch>>

\* the loop body without its try / except: a failed click or wait raises
TabSnapshot_no_handler(res) == IF res = "ok" THEN "full" ELSE "raise"

\* one iteration of the loop of collect_tab_html_async: the entry recorded for
\* tab_key.  res is how the iteration went: "ok", the click raised ("click"),
\* wait_for_selector raised ("wait"), or page.content() raised in the handler
\* ("content"), which leaves the coroutine.
TabSnapshot(res) ==
    CASE res = "ok" -> "full"
      [] res \in {"click", "wait"} -> "partial"
      [] OTHER -> "raise"

\* the tabs of a bundle whose click or wait failed
SoftFailed(bundle) == {t \in TabNames : bundle[t] = "partial"}

\* one tab of collect_tab_html_async: click, wait_for_selector, page.content()
Tab(i) ==
    /\ pc[i] = "tabs"
    /\ \E res \in {"ok", "click", "wait", "content"} :
         LET tab_key == TabOrder[tabIdx[i]]
             snap == TabSnapshot(res)
         IN  /\ Charge(IF res = "ok" THEN 0 ELSE 1)
             /\ IF snap # "raise"
                THEN /\ tab_html' = [tab_html EXCEPT ![i][tab_key] = snap]
                     /\ IF tabIdx[i] < Len(TabOrder)
                        THEN /\ tabIdx' = [tabIdx EXCEPT ![i] = tabIdx[i] + 1]
                             /\ UNCHANGED pc
                        ELSE /\ pc' = [pc EXCEPT ![i] = "process"]
                             /\ UNCHANGED tabIdx
                     /\ UNCHANGED <<outcome, raised>>
                ELSE /\ Caught(i, res)
                     /\ UNCHANGED <<tab_html, tabIdx>>
    /\ UNCHANGED <<up, earlier, urls, limit, sem, now, clock, scrape_log, log_file, tables, page,
                   description, ret, produced, batch>>

\* scrape_log[url] = datetime.now()
MarkScraped(log, url, at) == DictSet(log, url, at)

\* process_company_data, scrape_log[url] = datetime.now(), save_scrape_log and
\* return url, True: one run without a suspension point
Process(i) ==
    /\ pc[i] = "process"
    /\ \E remote \in Remotes, fault \in Faults :
         LET url == urls[i]
             r == process_company_data(tables, url, tab_html[i], description[i], remote, fault)
             marked == MarkScraped(scrape_log, url, clock)
         IN  /\ fault.table # "none" =>      \* a storage fault is met by a call that reaches the storage
                   Extracted(tab_html[i], url, description[i], remote)[fault.table] # <<>>
             /\ fault.kind = "read" =>       \* reading a table that does not exist is no fault
                   tables[fault.table] # <<>>
             /\ Charge(IF fault.kind = "none" THEN 0 ELSE 1)
             /\ tables' = r.tables
             /\ produced' = [produced EXCEPT ![i] =
                               IF r.step = "extract" THEN NoRows
                               ELSE Extracted(tab_html[i], url, description[i], remote)]
             /\ IF ~r.ok
                THEN /\ Caught(i, r.step)
                     /\ UNCHANGED <<scrape_log, log_file>>
                ELSE /\ scrape_log' = marked
                     /\ IF fault.kind = "log"
                        THEN /\ Caught(i, "log")
                             /\ UNCHANGED log_file
                        ELSE /\ log_file' = save_scrape_log(log_file, marked)
                             /\ outcome' = [outcome EXCEPT ![i] = "Success"]
                             /\ pc' = [pc EXCEPT ![i] = "close"]
                             /\ UNCHANGED raised
    /\ UNCHANGED <<up, earlier, urls, limit, sem, now, clock, tabIdx, page, description, tab_html, ret, batch>>

\* page.close() at the end of the try block instead of in a finally clause
ReleasePage_on_success(how) == IF how = "Success" THEN "closed" ELSE "open"

\* the page after the finally clause ran page.close() for a task that ends
\* as how: closed (a close that raises finds the page already gone)
ReleasePage(how) == "closed"

\* the value scrape_url_async returns for an outcome
Returned(how) == IF how = "Success" THEN "True" ELSE "False"

\* finally: await page.close() resolves; the pending return takes effect, or
\* the exception of page.close() leaves the task.  async with releases the
\* semaphore either way.
Close(i) ==
    /\ pc[i] = "close"
    /\ \E ok \in BOOLEAN :
         /\ Charge(IF ok THEN 0 ELSE 1)
         /\ IF ok
            THEN /\ Ended(i, outcome[i], Returned(outcome[i]))
                 /\ UNCHANGED raised
            ELSE /\ Ended(i, "Raised", "none")
                 /\ raised' = [raised EXCEPT ![i] = IF raised[i] = "none" THEN "close" ELSE raised[i]]
    /\ page' = [page EXCEPT ![i] = ReleasePage(outcome[i])]
    /\ sem' = sem + 1
    /\ UNCHANGED <<up, earlier, urls, limit, now, clock, scrape_log, log_file, tables, batch>>

\* ------------------------------------------------------------ scheduler
AllDone == \A i \in Tasks : pc[i] = "done"

\* time passes while the batch runs.  Only the skip check and the log mark
\* are steps at which the time matters, so the clock is advanced only when
\* some task is about to take one of them.
Tick ==
    /\ batch = "running"
    /\ \E i \in Tasks : pc[i] \in {"start", "process"}
    /\ clock < MaxClock
    /\ clock' = clock + 1
    /\ UNCHANGED <<up, earlier, urls, limit, sem, now, scrape_log, log_file, tables, pc, tabIdx, page,
                   description, tab_html, outcome, ret, raised, produced, batch, faults>>

\* await asyncio.gather(*tasks) raises the first exception a task let out;
\* scrape_all_async leaves async with async_playwright() and asyncio.run
\* cancels what is left
Abort ==
    /\ batch = "running"
    /\ \E i \in Tasks : outcome[i] = "Raised" /\ pc[i] = "done"
    /\ batch' = "aborted"
    /\ UNCHANGED <<up, earlier, urls, limit, sem, now, clock, scrape_log, log_file, tables, pc, tabIdx,
                   page, description, tab_html, outcome, ret, raised, produced, faults>>

\* a task that has not ended is cancelled after the batch was aborted: the
\* CancelledError is no Exception, the finally clause releases the page and
\* async with the semaphore
Cancel(i) ==
    /\ batch = "aborted"
    /\ pc[i] # "done"
    /\ Ended(i, "Cancelled", "none")
    /\ page' = [page EXCEPT ![i] = IF page[i] = "open" THEN "closed" ELSE page[i]]
    /\ sem' = IF pc[i] = "start" THEN sem ELSE sem + 1
    /\ UNCHANGED <<up, earlier, urls, limit, now, clock, scrape_log, log_file, tables, raised, batch, faults>>

\* asyncio.gather returned and await browser.close() ran
Finish ==
    /\ batch = "running"
    /\ AllDone
    /\ \A i \in Tasks : outcome[i] # "Raised"
    /\ batch' = "done"
    /\ UNCHANGED <<up, earlier, urls, limit, sem, now, clock, scrape_log, log_file, tables, pc, tabIdx,
                   page, description, tab_html, outcome, ret, raised, produced, faults>>

Next ==
    \/ \E i \in Tasks : Admit(i)
    \/ \E i \in Tasks : NewPage(i)
    \/ \E i \in Tasks : Goto(i)
    \/ \E i \in Tasks : Description(i)
    \/ \E i \in Tasks : Info(i)
    \/ \E i \in Tasks : Tab(i)
    \/ \E i \in Tasks : Process(i)
    \/ \E i \in Tasks : Close(i)
    \/ \E i \in Tasks : Cancel(i)
    \/ Tick
    \/ Abort
    \/ Finish

Spec == Init /\ [][Next]_vars

\* the steps of task i, its cancellation included
TaskStep(i) ==
    \/ Admit(i)
    \/ NewPage(i)
    \/ Goto(i)
    \/ Description(i)
    \/ Info(i)
    \/ Tab(i)
    \/ Process(i)
    \/ Close(i)
    \/ Cancel(i)

\* the event loop runs every task that can run, every awaited network step
\* resolves (with a result or with its timeout), and gather returns or raises
\* once it can
Fairness ==
    /\ \A i \in Tasks : WF_vars(TaskStep(i))
    /\ WF_vars(Abort \/ Finish)

FairSpec == Spec /\ Fairness

\* ------------------------------------------------------------ the next batch
\* the companies whose task returned (url, False) from the except clause
FailedCompanies == {urls[i] : i \in {j \in Tasks : outcome[j] = "Failed"}}

\* the program is run again after a batch ended (gather returned, or raised
\* and everything left was cancelled): scrape_all_async reads the same URL
\* file, loads scrape_log.csv, takes now and creates the semaphore and tasks
NextBatch ==
    /\ batch \in {"done", "aborted"}
    /\ AllDone
    /\ Len(earlier) + 1 < MaxRuns
    /\ earlier' = Append(earlier, FailedCompanies)
    /\ \E t \in clock..MaxClock : clock' = t /\ now' = t
    /\ scrape_log' = load_scrape_log(log_file)
    /\ sem' = limit
    /\ pc' = [i \in Tasks |-> "start"]
    /\ page' = [i \in Tasks |-> "none"]
    /\ outcome' = [i \in Tasks |-> "none"]
    /\ ret' = [i \in Tasks |-> "none"]
    /\ raised' = [i \in Tasks |-> "none"]
    /\ batch' = "running"
    /\ UNCHANGED <<up, urls, limit, log_file, tables, tabIdx, description, tab_html, produced,
                   faults>>

\* the first batch: the URL file lists A and then B, BATCH_SIZE is 1 and no
\* log exists yet
InitRerun ==
    /\ Init
    /\ urls = [i \in Tasks |-> IF i = 1 THEN "A" ELSE "B"]
    /\ limit = 1
    /\ log_file = <<>>

NextRerun ==
    \/ Next
    \/ NextBatch

SpecRerun == InitRerun /\ [][NextRerun]_vars

\* ------------------------------------------------------------ update_sqlite on its own
\* record lists for one table: what process_company_data extracts for one
\* company, and such lists of two different companies one after the other
OneCompanyRecords(t, c) == {Extracted(FullBundle, c, "text", remote)[t] : remote \in Remotes}

RecordLists(t) ==
    UNION {OneCompanyRecords(t, c) : c \in Companies}
    \cup UNION {{Extracted(FullBundle, c, "text", remote)[t] \o Extracted(FullBundle, d, "text", remote)[t] :
                   remote \in Remotes} : <<c, d>> \in {cd \in Companies \X Companies : cd[1] # cd[2]}}

\* every variable of the batch, which calls of update_sqlite on their own leave alone
batchVars == <<urls, limit, sem, now, clock, scrape_log, log_file, pc, tabIdx, page,
               description, tab_html, outcome, ret, raised, produced, batch, faults, earlier>>

\* the batch has not run; the calls are made on one table, starting with a
\* call with no rows, which returns at once
InitUpsert ==
    /\ urls = [i \in Tasks |-> "A"]
    /\ limit = 1
    /\ sem = limit
    /\ now = StartClock
    /\ clock = StartClock
    /\ log_file = <<>>
    /\ scrape_log = load_scrape_log(log_file)
    /\ tables \in PriorTables
    /\ pc = [i \in Tasks |-> "start"]
    /\ tabIdx = [i \in Tasks |-> 1]
    /\ page = [i \in Tasks |-> "none"]
    /\ description = [i \in Tasks |-> "None"]
    /\ tab_html = [i \in Tasks |-> NoBundle]
    /\ outcome = [i \in Tasks |-> "none"]
    /\ ret = [i \in Tasks |-> "none"]
    /\ raised = [i \in Tasks |-> "none"]
    /\ produced = [i \in Tasks |-> NoRows]
    /\ batch = "running"
    /\ faults = 0
    /\ earlier = <<>>
    /\ \E t \in TableNames :
         up = [table |-> t, rows |-> <<>>, before |-> tables[t], readFails |-> FALSE, calls |-> 0]

\* update_sqlite(table, rows, url_key) called on the current content of a table
Upsert ==
    \E t \in {up.table}, readFails \in BOOLEAN :
      \E rows \in RecordLists(t) :
        /\ up.calls < MaxCalls
        /\ tables' = [tables EXCEPT ![t] = update_sqlite(tables[t], rows, UrlKeyOf(t), readFails)]
        /\ up' = [table |-> t, rows |-> rows, before |-> tables[t], readFails |-> readFails,
                  calls |-> up.calls + 1]
        /\ UNCHANGED batchVars

SpecUpsert == InitUpsert /\ [][Upsert]_vars

\* ------------------------------------------------------------ claims
\* the step in which task i runs process_company_data and the log write to
\* the end and returns (url, True)
Succeeds(i) == pc[i] = "process" /\ outcome'[i] = "Success"

\* C1: after a scrape of company X has run its upserts, the rows keyed X in
\* every table are exactly the rows that scrape produced for the table; no
\* earlier row keyed X is left, also when the scrape produced fewer rows.
C1_ReplacedByScrape ==
    [][\A i \in Tasks :
         Succeeds(i) =>
           \A t \in TableNames :
             RowsOf(tables'[t], UrlKeyOf(t), urls[i]) = produced'[i][t]]_vars

\* every row of a record list is keyed by company x
AllKeyed(rows, key, x) == \A r \in Range(rows) : r[key] = x

\* C2: without a storage error, an upsert of records all keyed by company X
\* leaves the rows of the table keyed by every other company as they were.
C2_OtherKeysUntouched ==
    ~up.readFails =>
      \A x \in Companies :
        AllKeyed(up.rows, UrlKeyOf(up.table), x) =>
          \A y \in Companies \ {x} :
            RowsOf(tables[up.table], UrlKeyOf(up.table), y)
              = RowsOf(up.before, UrlKeyOf(up.table), y)

\* C2 witness: records keyed A were upserted into a table that held rows of
\* A and rows of B, and B's rows are still there
C2_Witness ==
    /\ ~up.readFails
    /\ up.rows # <<>>
    /\ AllKeyed(up.rows, UrlKeyOf(up.table), "A")
    /\ RowsOf(up.before, UrlKeyOf(up.table), "A") # <<>>
    /\ RowsOf(up.before, UrlKeyOf(up.table), "A") # up.rows
    /\ RowsOf(up.before, UrlKeyOf(up.table), "B") # <<>>
    /\ RowsOf(tables[up.table], UrlKeyOf(up.table), "B") # <<>>

\* the task takes a step of its own (it is not cancelled from outside)
Steps(i, from) == pc[i] = from /\ pc'[i] # from /\ outcome'[i] # "Cancelled"

\* C3: the staleness entry of a company changes only in a step in which a
\* task of that company completes the pipeline and ends as Success (never for
\* a task that ends as Failed or SkippedFresh), and such a step always sets it.
C3_LogIffSuccess ==
    [][\A i \in Tasks :
         /\ (pc'[i] # pc[i] /\ DictGet(scrape_log', urls[i]) # DictGet(scrape_log, urls[i]))
              => outcome'[i] = "Success"
         /\ Succeeds(i)
              => /\ DictGet(scrape_log', urls[i]) = clock
                 /\ DictGet(load_scrape_log(log_file'), urls[i]) = clock]_vars

\* C4: an exception raised at any step of a task after the skip check ends
\* the task as Failed; it never leaves the task and never aborts the batch.
C4_ExceptionsBecomeFailed ==
    /\ \A i \in Tasks : (raised[i] # "none" /\ pc[i] = "done") => outcome[i] = "Failed"
    /\ batch # "aborted"

\* C5: a description region that is absent or times out does not abort the
\* task: whatever the read gives, the task goes on to the tabs.
C5_DescriptionNotFatal ==
    [][\A i \in Tasks :
         Steps(i, "description") => (pc'[i] = "info" /\ outcome'[i] = "none")]_vars

\* C6: a tab whose click or content wait fails gets the current snapshot as
\* its entry and the navigator goes on: every tab attempted so far has an
\* entry, the bundle handed to the extractor has one for each of the seven
\* tab names, and no click or wait failure ends the task.
C6_SoftTabFailure ==
    \A i \in Tasks :
      /\ pc[i] = "tabs" =>
           /\ tab_html[i]["info"] # "absent"
           /\ \A k \in 1..Len(TabOrder) : (tab_html[i][TabOrder[k]] # "absent") <=> (k < tabIdx[i])
      /\ pc[i] = "process" => \A t \in TabNames : tab_html[i][t] # "absent"
      /\ raised[i] \notin {"click", "wait"}
      /\ (SoftFailed(tab_html[i]) # {} /\ raised[i] = "none") => outcome[i] \in {"none", "Success"}

\* C6 witness: a task whose shareholders tab failed went through the
\* remaining tab and the persistence and is about to return Success
C6_Witness ==
    \E i \in Tasks :
      /\ tab_html[i]["shareholders"] = "partial"
      /\ tab_html[i]["notoria"] = "full"
      /\ outcome[i] = "Success"

\* the tasks past the admission gate that have not finished
InFlight == {i \in Tasks : pc[i] \notin {"start", "done"}}

\* C7: at most K tasks are in flight, and a task passes the gate only while
\* fewer than K are.
C7_AtMostKInFlight ==
    [][/\ Cardinality(InFlight') <= limit
       /\ \A i \in Tasks : Steps(i, "start") => Cardinality(InFlight) < limit]_vars

\* C7 witness: K tasks are in flight and another one waits at the gate
C7_Witness ==
    /\ Cardinality(InFlight) = limit
    /\ \E i \in Tasks : pc[i] = "start"

\* C8 as claimed: a task skips exactly when the log holds an entry for its
\* company that is less than the window old at the moment of the skip check.
C8_SkipAtCheckTime ==
    [][\A i \in Tasks :
         Steps(i, "start") =>
           LET last == DictGet(scrape_log, urls[i])
           IN  (outcome'[i] = "SkippedFresh") <=> (last # NoEntry /\ clock - last < FreshnessWindow)]_vars

\* C8 amended: a task skips exactly when the log holds an entry for its
\* company that is less than the window old at the start of the batch (the
\* time from which skip_threshold was computed); otherwise it scrapes.
C8_SkipAtBatchStart ==
    [][\A i \in Tasks :
         Steps(i, "start") =>
           LET last == DictGet(scrape_log, urls[i])
               skips == last # NoEntry /\ now - last < FreshnessWindow
           IN  /\ (outcome'[i] = "SkippedFresh") <=> skips
               /\ (pc'[i] = "new_page") <=> ~skips]_vars

\* C8 witness: one task was skipped for an entry younger than the window, and
\* another is being scraped though its company has an entry, exactly one
\* window old
C8_Witness ==
    \E i, j \in Tasks :
      /\ outcome[i] = "SkippedFresh"
      /\ pc[j] = "new_page"
      /\ DictGet(scrape_log, urls[j]) = now - FreshnessWindow

C10_NavigationFailureIsolated ==
    [][\A i \in Tasks :
         /\ (raised[i] = "goto" /\ pc'[i] = "done") => outcome'[i] = "Failed"
         /\ (pc[i] = "process" /\ pc'[i] = "close" /\ faults' = faults) =>
              /\ outcome'[i] = "Success"
              /\ \A t \in TableNames :
                   \A k \in 1..Len(produced'[i][t]) :
                     produced'[i][t][k] \in Range(tables'[t])
              /\ DictGet(load_scrape_log(log_file'), urls[i]) = clock
         /\ (outcome[i] = "Success" /\ pc[i] = "close" /\ pc'[i] = "done" /\ faults' = faults)
              => outcome'[i] = "Success"]_vars

\* C11: persisting the same records of one company a second time, right after
\* the first and without a storage error, changes nothing: the table holds
\* the same rows in the same order, for that company and for every other.
C11_SecondPersistChangesNothing ==
    [][(/\ up.calls > 0
        /\ up'.calls = up.calls + 1
        /\ up'.rows = up.rows
        /\ ~up'.readFails
        /\ \E x \in Companies : AllKeyed(up.rows, UrlKeyOf(up.table), x))
          => tables' = tables]_vars

\* C11 witness: the same non-empty records of A were upserted twice into a
\* table that holds rows of B, and the second call left the table as it was
C11_Witness ==
    /\ up.calls = 2
    /\ ~up.readFails
    /\ up.rows # <<>>
    /\ AllKeyed(up.rows, UrlKeyOf(up.table), "A")
    /\ RowsOf(up.before, UrlKeyOf(up.table), "A") = up.rows
    /\ RowsOf(up.before, UrlKeyOf(up.table), "B") # <<>>
    /\ tables[up.table] = up.before

\* task i runs its persistence and log write and meets a storage failure: a
\* table cannot be read, or cannot be written
StorageFailure(i) ==
    /\ pc[i] = "process"
    /\ pc'[i] = "close"
    /\ faults' = faults + 1
    /\ raised'[i] \notin {"extract", "log"}

\* C12: a failure to read or to write a table during an upsert ends the task
\* as Failed, leaves the staleness entry of its company as it was, and leaves
\* the rows of every other company in the tables as they were.
C12_StorageFailureIsFatal ==
    [][\A i \in Tasks :
         StorageFailure(i) =>
           /\ outcome'[i] = "Failed"
           /\ DictGet(scrape_log', urls[i]) = DictGet(scrape_log, urls[i])
           /\ \A t \in TableNames : \A y \in Companies \ {urls[i]} :
                RowsOf(tables'[t], UrlKeyOf(t), y) = RowsOf(tables[t], UrlKeyOf(t), y)]_vars

\* C13: the extraction, the four upserts and the log write of a task are one
\* step, in which no other task moves; a step of a task for Y leaves the rows
\* of every company X # Y that ended as Success as they were; and a task
\* that succeeds leaves its rows in every table.  By induction each table
\* holds, at batch end, the rows of every company that ended as Success.
C13_AtomicPersistence ==
    [][\A i \in Tasks :
         /\ (pc'[i] # pc[i] /\ (tables' # tables \/ log_file' # log_file)) =>
              /\ pc[i] = "process" /\ pc'[i] = "close"
              /\ \A j \in Tasks \ {i} : pc'[j] = pc[j]
         /\ pc'[i] # pc[i] =>
              \A j \in Tasks :
                (outcome[j] = "Success" /\ urls[j] # urls[i]) =>
                  \A t \in TableNames :
                    RowsOf(tables'[t], UrlKeyOf(t), urls[j]) = RowsOf(tables[t], UrlKeyOf(t), urls[j])
         /\ Succeeds(i) =>
              \A t \in TableNames :
                Range(produced'[i][t]) \subseteq Range(RowsOf(tables'[t], UrlKeyOf(t), urls[i]))]_vars

\* the keys present in a record list
KeysOf(rows, key) == {r[key] : r \in Range(rows)}

\* C14: an upsert (without a storage error) deletes every existing row whose
\* key equals the key of any record of the new record list, then appends
\* the new records: no earlier row with one of their keys remains.
C14_DeletesEveryKeyInRecords ==
    (up.calls > 0 /\ ~up.readFails /\ up.rows # <<>>) =>
      LET key == UrlKeyOf(up.table)
      IN  tables[up.table]
            = SelectSeq(up.before, LAMBDA r : r[key] \notin KeysOf(up.rows, key)) \o up.rows

\* C15: a company whose task ended as Failed in the batch before is not
\* skipped by this batch (its task passes the skip check and scrapes), and
\* when that task succeeds, the rows of the company in every table are
\* exactly the rows it produced.
C15_FailedIsRetried ==
    [][\A i \in Tasks :
         (earlier # <<>> /\ urls[i] \in earlier[Len(earlier)]) =>
           /\ Steps(i, "start") => pc'[i] = "new_page"
           /\ Succeeds(i) =>
                \A t \in TableNames :
                  RowsOf(tables'[t], UrlKeyOf(t), urls[i]) = produced'[i][t]]_vars

\* the three outcomes a task can report
Outcomes == {"Success", "SkippedFresh", "Failed"}

\* C16: under fair scheduling every batch terminates: every task ends with
\* one of the three outcomes (none is left unstarted or unfinished because
\* another task failed), every slot of the semaphore is released, and the
\* batch runs to its end.
C16_BatchTerminates ==
    <>[](/\ batch = "done"
         /\ \A i \in Tasks : pc[i] = "done" /\ outcome[i] \in Outcomes
         /\ sem = limit)

\* the order in which the tabs are to be attempted
FixedOrder == <<"indicators", "quotations", "reports1", "reports2", "shareholders", "notoria">>

\* the navigator of task i attempts a tab
TabAttempt(i) ==
    /\ pc[i] = "tabs"
    /\ tabIdx'[i] # tabIdx[i] \/ pc'[i] # "tabs"
    /\ outcome'[i] # "Cancelled"

\* C17: in one run of the navigator the tabs are attempted in the fixed
\* order, one attempt per tab whether it succeeds or fails: the k-th attempt
\* is for the k-th tab, records an entry for that tab alone, which had none,
\* and is followed by the next tab (or ends the run); the first attempt comes
\* after the page load, the description and the info snapshot.
C17_TabsInOrderOnce ==
    [][\A i \in Tasks :
         /\ TabAttempt(i) =>
              /\ page[i] = "open" /\ description[i] # "None" /\ tab_html[i]["info"] # "absent"
              /\ \A k \in 1..Len(FixedOrder) :
                    (tab_html[i][FixedOrder[k]] # "absent") <=> (k < tabIdx[i])
              /\ \A t \in TabNames :
                    tab_html'[i][t] # tab_html[i][t] => t = FixedOrder[tabIdx[i]]
              /\ pc'[i] = "tabs" =>
                    tabIdx'[i] = tabIdx[i] + 1 /\ tab_html'[i][FixedOrder[tabIdx[i]]] # "absent"
              /\ pc'[i] = "process" =>
                    tabIdx[i] = Len(FixedOrder) /\ tab_html'[i][FixedOrder[tabIdx[i]]] # "absent"
              /\ pc'[i] \in {"tabs", "process", "close"}
         /\ (pc[i] = "tabs" /\ ~TabAttempt(i) /\ pc'[i] = "tabs") =>
              (tabIdx'[i] = tabIdx[i] /\ tab_html'[i] = tab_html[i])
         /\ (pc[i] # "tabs" /\ pc'[i] = "tabs") =>
              (pc[i] = "info" /\ tabIdx'[i] = 1)]_vars

\* C17 witness: a run of the navigator went through all six tabs, the third
\* of which failed, and handed its bundle over
C17_Witness ==
    \E i \in Tasks :
      /\ pc[i] = "process"
      /\ tabIdx[i] = Len(FixedOrder)
      /\ tab_html[i]["reports1"] = "partial"
      /\ \A t \in TabNames \ {"reports1"} : tab_html[i][t] = "full"

\* C18: a task that has ended has exactly one of the three outcomes:
\* SkippedFresh exactly when the skip check was true (no page was opened),
\* Success exactly when the pipeline completed and the log was marked, Failed
\* exactly when a step raised; and the value the task returns tells the
\* outcomes apart, so a skipped company is not reported like a failed one.
C18_ThreeOutcomes ==
    \A i \in Tasks :
      pc[i] = "done" =>
        /\ outcome[i] \in Outcomes
        /\ (outcome[i] = "SkippedFresh") <=> (page[i] = "none")
        /\ (outcome[i] = "Failed") <=> (raised[i] # "none")
        /\ (outcome[i] = "Success") =>
              /\ DictGet(scrape_log, urls[i]) >= now
              /\ DictGet(load_scrape_log(log_file), urls[i]) >= now
        /\ \A j \in Tasks :
              (pc[j] = "done" /\ ret[j] = ret[i]) => outcome[j] = outcome[i]

\* C19: whatever list the URL file holds and whatever the limit K, no two
\* tasks of the same company are in flight at the same time, and no company
\* is scraped and persisted by two tasks of one batch.
C19_OneTaskPerCompany ==
    \A i, j \in Tasks :
      (i # j /\ urls[i] = urls[j]) =>
        /\ ~(i \in InFlight /\ j \in InFlight)
        /\ ~(outcome[i] = "Success" /\ outcome[j] = "Success")

\* the non-empty record lists of company c for table t
NonEmptyRecords(t, c) == OneCompanyRecords(t, c) \ {<<>>}

\* the table after the upsert of rx and then the upsert of ry, no storage error
UpsertBoth(existing, rx, ry, url_key) ==
    update_sqlite(update_sqlite(existing, rx, url_key, FALSE), ry, url_key, FALSE)

\* C20: for every table content and all non-empty record lists of two
\* different companies X and Y, the upsert for X followed by the upsert for
\* Y leaves the same set of rows as the two in the opposite order.
C20_UpsertsCommute ==
    LET t == up.table
        key == UrlKeyOf(t)
    IN  \A pair \in {s \in SUBSET Companies : Cardinality(s) = 2} :
          LET x == CHOOSE c \in pair : TRUE
              y == CHOOSE c \in pair \ {x} : TRUE
          IN  \A rx \in NonEmptyRecords(t, x) : \A ry \in NonEmptyRecords(t, y) :
                Range(UpsertBoth(tables[t], rx, ry, key)) = Range(UpsertBoth(tables[t], ry, rx, key))

\* C20 witness: records of A and then records of B were upserted into a
\* table that held earlier rows of both; the opposite order gives the same
\* rows, in another order
C20_Witness ==
    LET t == up.table
        key == UrlKeyOf(t)
        rx == RowsOf(up.before, key, "A")
    IN  /\ up.calls = 2
        /\ ~up.readFails
        /\ up.rows # <<>> /\ AllKeyed(up.rows, key, "B")
        /\ rx # <<>>
        /\ \E prior \in PriorTables :
             /\ prior[t] # <<>>
             /\ up.before = update_sqlite(prior[t], rx, key, FALSE)
             /\ up.before # prior[t]
             /\ tables[t] = UpsertBoth(prior[t], rx, up.rows, key)
             /\ Range(tables[t]) = Range(UpsertBoth(prior[t], up.rows, rx, key))
             /\ tables[t] # UpsertBoth(prior[t], up.rows, rx, key)

\* the rows of scrape_log.csv for one company
LogRows(file, url) == SelectSeq(file, LAMBDA r : r.url = url)

\* no save_scrape_log of the batch has raised so far
AllSavesSucceeded == \A j \in Tasks : raised[j] # "log"

\* C21: scrape_log.csv is rewritten only by a task that succeeds; it holds at
\* most one row per company; and while every log save of the batch has
\* succeeded, a save sets the row of the company just scraped to the time of
\* that scrape and leaves the row of every other company as it was, so each
\* row carries the time of its company's latest successful scrape and the
\* rows of companies not scraped in the batch are unchanged.
C21_OneRowLatestStamp ==
    [][/\ log_file' # log_file => \E i \in Tasks : Succeeds(i)
       /\ \A c \in Companies : Len(LogRows(log_file', c)) <= 1
       /\ \A i \in Tasks :
            Succeeds(i) =>
              /\ LogRows(log_file', urls[i]) = <<[url |-> urls[i], last_scraped |-> clock]>>
              /\ AllSavesSucceeded =>
                   \A c \in Companies \ {urls[i]} : LogRows(log_file', c) = LogRows(log_file, c)]_vars

\* C21 witness: the log held a row for A and a row for B; A was scraped again
\* and its row carries the new time, B was skipped and its row is the old one
C21_Witness ==
    \E i, j \in Tasks :
      /\ urls[i] = "A" /\ outcome[i] = "Success"
      /\ urls[j] = "B" /\ outcome[j] = "SkippedFresh"
      /\ Len(LogRows(log_file, "A")) = 1 /\ LogRows(log_file, "A")[1].last_scraped >= now
      /\ \E old \in PriorStamps : LogRows(log_file, "B") = <<[url |-> "B", last_scraped |-> old]>>
      /\ Len(log_file) = 2

====
